---- MODULE Spec2Model ----
(***************************************************************************)
(* A model of the track-the-thing desktop shell                            *)
(* (src/desktop/tauri/src-tauri/src/lib.rs): the backend child handle      *)
(* (BackendProcess), the window preference store, the setup sequence, the  *)
(* window-event handlers and the readiness task.                           *)
(*                                                                         *)
(* Three specifications share the variables:                               *)
(*   SpecHandle  BackendProcess driven by concurrent callers of replace    *)
(*               and terminate, one step per access to the handle;         *)
(*   SpecGeom    the pre-show geometry of initialize_windows as a          *)
(*               function of saved preferences and screen size;            *)
(*   Spec        one launch of the application: setup, window events,      *)
(*               the readiness task, exit.                                 *)
(* Each specification leaves the variables of the others unchanged.        *)
(***************************************************************************)
EXTENDS Integers, Sequences, FiniteSets, TLC

\* ------------------------------------------------------------------ bounds

\* Children the callers of BackendProcess::replace may spawn (SpecHandle).
MaxChildren == 2
\* Threads calling into BackendProcess concurrently (SpecHandle).
NThreads == 2
\* Calls of BackendProcess::terminate made by the callers (SpecHandle).
MaxTerminates == 2
\* The kill counter of a child saturates here (it exceeds 1 only in a model
\* whose terminate does not empty the handle).
MaxKills == 2

\* The readiness task's clock stops here, in milliseconds since its start.
MaxTime == 500

ChildIds == 1..MaxChildren
Threads == 1..NThreads

\* --------------------------------------------------------------- variables

VARIABLES
    \* BackendProcess.child: 0 is None, c > 0 is Some(child c)
    child,
    \* the operating-system process behind each child
    procState,
    \* kills issued per child (Child::kill calls), saturating at MaxKills
    kills,
    \* SpecHandle: the mutex of BackendProcess.child, 0 when free
    lockOwner,
    \* SpecHandle: each caller's position inside replace / terminate
    hpc,
    \* SpecHandle: each caller's local (the Child moved in, the Option taken)
    hloc,
    \* SpecHandle: the next child id to spawn, and terminate calls started
    nextChild,
    termCount,
    \* SpecHandle: whether a call was ever started while another was in flight
    overlap,
    \* SpecGeom: the inputs of initialize_windows' geometry and its result
    gSaved,
    gScreen,
    gCfg,
    gOut,
    \* SpecEnv: the values of the TAURI_* environment variables from_env reads
    envIn,
    \* SpecEnv: the DesktopConfig fields from_env built from them
    envOut,
    \* Spec: where the launch is: the steps of setup, running, or ended
    phase,
    \* Spec: the DesktopConfig built by from_env
    cfg,
    \* Spec: the monitor as current_monitor() reports it, with the scale
    \* factor and the window decoration of the platform
    screen,
    \* Spec: the content of window_prefs.json
    file,
    \* Spec: the windows "main" and "splashscreen"
    mainWin,
    splashWin,
    \* Spec: the main window's inner size in physical pixels, its maximized
    \* state, and whether a Resized event of a programmatic change is queued
    winSize,
    winMax,
    resizedPending,
    \* Spec: the kind of the last window event handled for "main"
    lastEvent,
    \* Spec: whether BackendProcess::terminate was ever called
    terminated,
    \* Spec: the readiness task: position, elapsed time since `start` in
    \* milliseconds, the window handles it captured
    tpc,
    now,
    tMain,
    tSplash,
    \* Spec: when the task saw the first 200 and when it showed the main
    \* window (-1: not yet), and what it has done
    readyAt,
    shownAt,
    seen200,
    taskShowed,
    taskClosedSplash,
    \* SpecSpeech: whether init_speech_system has set AUTH_SENDERS
    speechInit,
    \* SpecSpeech: AUTH_SENDERS, the senders of the pending calls in push order
    authSenders,
    \* SpecSpeech: each request_speech_authorization call's position, its
    \* oneshot channel and what it returned
    apc,
    chan,
    aret,
    \* SpecSpeech: native authorization requests issued and not yet answered
    outstanding,
    \* SpecSpeech: callbacks fired so far, and the callback that sent to each call
    cbCount,
    releasedBy,
    \* SpecSpeech: whether a call found the sender of a timed-out call in
    \* AUTH_SENDERS when it pushed its own
    sawTimedOut,
    \* SpecMedia: VIDEO_RECORDER, 0 is None, r > 0 is Some((ffmpeg process r, path))
    recorder,
    \* SpecMedia: the ffmpeg process behind each recorder, and the next id
    recState,
    nextRec,
    \* SpecMedia: each command invocation's position, the Child it holds in a
    \* local, and what its last command returned
    mpc,
    mloc,
    mret,
    \* SpecMedia: commands invoked so far
    mediaCalls,
    \* SpecMedia: whether a store ever overwrote a stored recorder
    overwrote

handleVars == <<child, procState, kills>>
harnessVars == <<lockOwner, hpc, hloc, nextChild, termCount, overlap>>
geomVars == <<gSaved, gScreen, gCfg, gOut>>
envVars == <<envIn, envOut>>
speechVars == <<speechInit, authSenders, apc, chan, aret, outstanding, cbCount, releasedBy,
                sawTimedOut>>
mediaVars == <<recorder, recState, nextRec, mpc, mloc, mret, mediaCalls, overwrote>>
sideVars == <<geomVars, envVars, speechVars, mediaVars>>
setupVars == <<phase, cfg>>
winVars == <<mainWin, splashWin, winSize, winMax, resizedPending>>
taskVars == <<tpc, now, tMain, tSplash, readyAt, shownAt, seen200, taskShowed,
              taskClosedSplash>>
lifeVars == <<phase, cfg, screen, file, mainWin, splashWin, winSize, winMax,
              resizedPending, lastEvent, terminated, tpc, now, tMain, tSplash, readyAt,
              shownAt, seen200, taskShowed, taskClosedSplash>>
vars == <<child, procState, kills, lockOwner, hpc, hloc, nextChild, termCount, overlap,
          gSaved, gScreen, gCfg, gOut, envIn, envOut, phase, cfg, screen, file, mainWin,
          splashWin, winSize, winMax, resizedPending, lastEvent, terminated, tpc, now,
          tMain, tSplash, readyAt, shownAt, seen200, taskShowed, taskClosedSplash,
          speechInit, authSenders, apc, chan, aret, outstanding, cbCount, releasedBy,
          sawTimedOut, recorder, recState, nextRec, mpc, mloc, mret, mediaCalls, overwrote>>


\* ------------------------------------------- window geometry (lib.rs:308)

\* Sizes that the code holds as f64 are kept in hundredths of a pixel, so
\* that screen * 0.51 + 510 and screen * ratio (ratio in whole percent) are
\* exact; a u32 pixel count n is the f64 Px(n).
Px(n) ==
    n * 100

\* The floors of initialize_windows' saved-preferences branch
\* (lib.rs:337, lib.rs:338) and of its computed branch (lib.rs:348).
SavedMinWidth == 480
SavedMinHeight == 600
DefaultMinWidth == 480
\* screen_size.width * 0.51 + 510.0 (lib.rs:346), in percent and pixels
DefaultWidthPercent == 51
DefaultWidthExtra == 510

NoPrefs ==
    [some |-> FALSE]

SomePrefs(w, h, m) ==
    [some |-> TRUE, width |-> w, height |-> h, maximized |-> m]

Panicked ==
    [panic |-> TRUE]

SizeOf(w, h) ==
    [panic |-> FALSE, w |-> w, h |-> h]

\* A clamp that forgets the lower bound.
ClampUpperOnly(x, lo, hi) ==
    [panic |-> FALSE, v |-> IF x > hi THEN hi ELSE x]

\* f64::clamp(min, max) (lib.rs:337-338): the standard library asserts
\* min <= max and panics otherwise; else x bounded to [min, max].
Clamp(x, lo, hi) ==
    IF lo > hi
    THEN [panic |-> TRUE, v |-> 0]
    ELSE [panic |-> FALSE, v |-> IF x < lo THEN lo ELSE IF x > hi THEN hi ELSE x]

MinOf(a, b) ==
    IF a < b THEN a ELSE b

MaxOf(a, b) ==
    IF a > b THEN a ELSE b

\* initialize_windows, the branch taken when preferences were loaded
\* (lib.rs:334-339).
SavedGeometry(prefs, scr) ==
    LET w == Clamp(Px(prefs.width), Px(SavedMinWidth), Px(scr.w))
        h == Clamp(Px(prefs.height), Px(SavedMinHeight), Px(scr.h))
    IN  IF w.panic \/ h.panic THEN Panicked ELSE SizeOf(w.v, h.v)

\* config.window_width.unwrap_or_else(|| screen.width * 0.51 + 510.0)
\* (lib.rs:344-346, lib.rs:444-445)
ConfiguredWidth(scr, c) ==
    IF c.width.some
    THEN c.width.v
    ELSE scr.w * DefaultWidthPercent + Px(DefaultWidthExtra)

\* The computed branch without the cap at the screen width.
DefaultGeometryUncapped(scr, c) ==
    LET cw == ConfiguredWidth(scr, c)
        w == IF cw < Px(480) THEN Px(480) ELSE cw
        h == MinOf(scr.h * c.ratio, Px(scr.h))
    IN  SizeOf(w, h)

\* initialize_windows, the branch taken without saved preferences
\* (lib.rs:340-353).
DefaultGeometry(scr, c) ==
    LET capped == MinOf(ConfiguredWidth(scr, c), Px(scr.w))
        w == IF capped < Px(DefaultMinWidth) THEN Px(DefaultMinWidth) ELSE capped
        h == MinOf(scr.h * c.ratio, Px(scr.h))
    IN  SizeOf(w, h)

\* The (width, height) initialize_windows passes to set_size as a logical
\* size (lib.rs:334-355).
PreShowGeometry(saved, scr, c) ==
    IF saved.some THEN SavedGeometry(saved, scr) ELSE DefaultGeometry(scr, c)

\* Widths and heights a preferences file may hold (a u32 each): values
\* around both floors, around common screen sizes, zero and a large one.
SavedDims ==
    {0, 50, 479, 480, 481, 599, 600, 601, 1080, 1920, 2000, 100000}

\* Monitor widths and heights, some below the floors.
ScreenDims ==
    {320, 479, 480, 599, 600, 1080, 1920}

\* DesktopConfig values (lib.rs:101-111) as built by from_env: the height
\* ratio in percent, the optional width in hundredths of a pixel, the
\* maximized flag, the splash minimum in milliseconds.
NoWidth ==
    [some |-> FALSE]

ProductionConfig ==
    [ratio |-> 70, width |-> NoWidth, maximized |-> FALSE, splash_min |-> 1200]

Configs ==
    { ProductionConfig,
      [ratio |-> 95, width |-> [some |-> TRUE, v |-> Px(1000)], maximized |-> TRUE,
       splash_min |-> 0],
      [ratio |-> 95, width |-> [some |-> TRUE, v |-> 32050], maximized |-> FALSE,
       splash_min |-> 300] }

\* ------------------------------------- DesktopConfig::from_env (lib.rs:113)

\* An environment variable as from_env sees it: not set; set to text that
\* does not parse; set to text that parses to the number v; and, for f64,
\* the texts "inf", "-inf" and "NaN", which str::parse::<f64> accepts.
Missing ==
    [kind |-> "missing"]

Garbage ==
    [kind |-> "garbage"]

Num(v) ==
    [kind |-> "num", v |-> v]

PosInf ==
    [kind |-> "inf"]

NegInf ==
    [kind |-> "neg_inf"]

NaNText ==
    [kind |-> "nan"]

\* value.parse::<f64>().ok() is Some for these.
ParsesAsF64(e) ==
    e.kind \in {"num", "inf", "neg_inf", "nan"}

\* An f64 result: a finite value, or NaN.
Finite(v) ==
    [nan |-> FALSE, v |-> v]

NaN ==
    [nan |-> TRUE]

\* window_height_ratio (lib.rs:128-132), in percent: the parsed value
\* clamped to [0.5, 0.98], 0.95 when the variable is missing or does not
\* parse. f64::clamp returns NaN when the value is NaN.
RatioMin == 50
RatioMax == 98
RatioDefault == 95
HeightRatio(e) ==
    CASE e.kind = "num" -> Finite(Clamp(e.v, RatioMin, RatioMax).v)
      [] e.kind = "inf" -> Finite(RatioMax)
      [] e.kind = "neg_inf" -> Finite(RatioMin)
      [] e.kind = "nan" -> NaN
      [] OTHER -> Finite(RatioDefault)

\* window_width (lib.rs:134-137), in hundredths of a pixel: the parsed value
\* when it is greater than 320, else unset.
WidthFloor == 320
WindowWidth(e) ==
    IF e.kind = "num" /\ e.v > Px(WidthFloor)
    THEN [some |-> TRUE, v |-> e.v]
    ELSE NoWidth

\* value.to_ascii_lowercase() on the texts of EnvMaximized.
ToAsciiLowercase(t) ==
    CASE t = "TRUE" -> "true"
      [] t = "Yes" -> "yes"
      [] OTHER -> t

\* window_maximized (lib.rs:139-141): "1", "true" or "yes" in any case.
WindowMaximized(e) ==
    IF e.kind = "text"
    THEN ToAsciiLowercase(e.v) \in {"1", "true", "yes"}
    ELSE FALSE

\* splash_min (lib.rs:143-147), in milliseconds: the parsed u64, 1200 when
\* the variable is missing or does not parse.
SplashDefaultMs == 1200
SplashMin(e) ==
    IF e.kind = "num" THEN e.v ELSE SplashDefaultMs

\* DesktopConfig::from_env (lib.rs:113-165), the fields the windows use.
FromEnv(e) ==
    [ratio |-> HeightRatio(e.ratio),
     width |-> WindowWidth(e.width),
     maximized |-> WindowMaximized(e.maximized),
     splash_min |-> SplashMin(e.splash)]

\* Values of TAURI_WINDOW_HEIGHT_RATIO, numbers in percent.
EnvRatios ==
    {Missing, Garbage, PosInf, NegInf, NaNText} \cup
    {Num(v) : v \in {-100, 0, 49, 50, 51, 95, 98, 99, 150}}

\* Values of TAURI_WINDOW_WIDTH, numbers in hundredths of a pixel.
EnvWidths ==
    {Missing, Garbage, Num(Px(320)), Num(32050), Num(Px(1000))}

\* Values of TAURI_WINDOW_MAXIMIZED.
EnvMaximized ==
    {Missing} \cup {[kind |-> "text", v |-> t] : t \in {"1", "TRUE", "Yes", "on"}}

\* Values of TAURI_SPLASH_MIN_VISIBLE_MS; "-5" and "1.5" do not parse as u64.
EnvSplash ==
    {Missing, Garbage, Num(0), Num(300)}

NoEnv ==
    [ratio |-> Missing, width |-> Missing, maximized |-> Missing, splash |-> Missing]

InitEnv ==
    /\ envIn \in [ratio : EnvRatios, width : EnvWidths, maximized : EnvMaximized,
                   splash : EnvSplash]
    /\ envOut = [done |-> FALSE]

\* One call of from_env on the drawn environment.
EnvCompute ==
    /\ ~envOut.done
    /\ envOut' = [done |-> TRUE, cfg |-> FromEnv(envIn)]
    /\ UNCHANGED <<envIn, geomVars, speechVars, mediaVars>>
    /\ UNCHANGED handleVars
    /\ UNCHANGED harnessVars
    /\ UNCHANGED lifeVars

\* from_env is not part of the other specifications' inputs.
IdleEnv ==
    /\ envIn = NoEnv
    /\ envOut = [done |-> FALSE]

\* initialize_windows' computed branch (lib.rs:340-353) on a configuration
\* built by from_env. With a NaN height ratio screen.height * ratio is NaN
\* and f64::min returns its other operand, the screen height.
PreShowFromEnv(scr, fc) ==
    IF fc.ratio.nan
    THEN LET d == DefaultGeometry(scr, [fc EXCEPT !.ratio = RatioMax])
         IN  SizeOf(d.w, Px(scr.h))
    ELSE DefaultGeometry(scr, [fc EXCEPT !.ratio = fc.ratio.v])

\* Values of TAURI_WINDOW_WIDTH around the validity floor, around the 480
\* floor and beyond every screen, in hundredths of a pixel.
PreShowWidths ==
    EnvWidths \cup {Num(0), Num(-Px(5)), Num(Px(321)), Num(Px(479)), Num(Px(5000))}

\* Values of TAURI_WINDOW_HEIGHT_RATIO for the pre-show geometry.
PreShowRatios ==
    {Missing, NaNText, PosInf, Num(0), Num(50), Num(70), Num(150)}

\* The environment and monitor of a launch without preferences file.
InitPreShow ==
    /\ envIn \in [ratio : PreShowRatios, width : PreShowWidths,
                   maximized : {Missing}, splash : {Missing}]
    /\ envOut = [done |-> FALSE]
    /\ gSaved = NoPrefs
    /\ gScreen \in [w : ScreenDims, h : ScreenDims]
    /\ gCfg = ProductionConfig
    /\ gOut = [done |-> FALSE]

\* initialize_windows (lib.rs:329-355) with load returning None, on the
\* configuration from_env built.
PreShowCompute ==
    /\ envOut.done
    /\ ~gOut.done
    /\ gOut' = [done |-> TRUE, size |-> PreShowFromEnv(gScreen, envOut.cfg)]
    /\ UNCHANGED <<gSaved, gScreen, gCfg, envVars, speechVars, mediaVars>>
    /\ UNCHANGED handleVars
    /\ UNCHANGED harnessVars
    /\ UNCHANGED lifeVars

InitGeom ==
    /\ gSaved \in {NoPrefs} \cup
                  {SomePrefs(w, h, FALSE) : w \in SavedDims, h \in SavedDims}
    /\ gScreen \in [w : ScreenDims, h : ScreenDims]
    /\ gCfg \in IF gSaved.some THEN {ProductionConfig} ELSE Configs
    /\ gOut = [done |-> FALSE]

\* One evaluation of the pre-show geometry on the drawn inputs.
GeomCompute ==
    /\ ~gOut.done
    /\ gOut' = [done |-> TRUE, size |-> PreShowGeometry(gSaved, gScreen, gCfg)]
    /\ UNCHANGED <<gSaved, gScreen, gCfg, envVars, speechVars, mediaVars>>
    /\ UNCHANGED handleVars
    /\ UNCHANGED harnessVars
    /\ UNCHANGED lifeVars

\* ------------------------------------------------- BackendProcess (lib.rs)

\* Option::take applied to a handle h, as a mutant would do it: the value is
\* read but the slot keeps it.
TakePeek(h) ==
    [taken |-> h, left |-> h]

\* Option::take (lib.rs:28): the value read, and None left behind.
Take(h) ==
    [taken |-> h, left |-> 0]

\* Mutex::lock with the mutual exclusion removed.
MutexNeverBlocks ==
    TRUE

\* Mutex::lock (lib.rs:24, lib.rs:28) returns only while no guard is alive.
MutexFree ==
    lockOwner = 0

\* Child::kill (lib.rs:29) on child c with result ok: the kill is issued
\* either way; a running process dies only when the kill succeeds.
KillEffect(ps, c, ok) ==
    IF ok /\ ps[c] = "running" THEN [ps EXCEPT ![c] = "killed"] ELSE ps

CountKill(ks, c) ==
    [ks EXCEPT ![c] = IF ks[c] < MaxKills THEN ks[c] + 1 ELSE ks[c]]

\* Some caller other than t is inside replace or terminate.
InFlight(t) ==
    \E u \in Threads : u # t /\ hpc[u] # "idle"

\* A caller spawns a child and calls replace(child) (lib.rs:197-198 is the
\* one call site of the application).
CallReplace(t) ==
    /\ hpc[t] = "idle"
    /\ nextChild <= MaxChildren
    /\ procState' = [procState EXCEPT ![nextChild] = "running"]
    /\ hloc' = [hloc EXCEPT ![t] = nextChild]
    /\ nextChild' = nextChild + 1
    /\ hpc' = [hpc EXCEPT ![t] = "rep_lock"]
    /\ overlap' = (overlap \/ InFlight(t))
    /\ UNCHANGED <<child, kills, lockOwner, termCount>>
    /\ UNCHANGED sideVars
    /\ UNCHANGED lifeVars

\* replace: self.child.lock() (lib.rs:24)
ReplaceLock(t) ==
    /\ hpc[t] = "rep_lock"
    /\ MutexFree
    /\ lockOwner' = t
    /\ hpc' = [hpc EXCEPT ![t] = "rep_store"]
    /\ UNCHANGED <<child, procState, kills, hloc, nextChild, termCount, overlap>>
    /\ UNCHANGED sideVars
    /\ UNCHANGED lifeVars

\* A drop of the previous value that kills the child it holds.
KillOnDrop(old, ps, ks) ==
    IF old # 0
    THEN [procState |-> KillEffect(ps, old, TRUE), kills |-> CountKill(ks, old)]
    ELSE [procState |-> ps, kills |-> ks]

\* The drop of the previous Option<Child> when the slot is assigned
\* (lib.rs:24): std::process::Child has no Drop that kills or waits, the
\* process of a dropped Child keeps running.
DropPrevious(old, ps, ks) ==
    [procState |-> ps, kills |-> ks]

\* replace: *guard = Some(child); the old value is dropped without a kill
\* and the guard is released at the end of the statement (lib.rs:24).
ReplaceStore(t) ==
    /\ hpc[t] = "rep_store"
    /\ child' = hloc[t]
    /\ LET d == DropPrevious(child, procState, kills)
       IN  /\ procState' = d.procState
           /\ kills' = d.kills
    /\ lockOwner' = IF lockOwner = t THEN 0 ELSE lockOwner
    /\ hloc' = [hloc EXCEPT ![t] = 0]
    /\ hpc' = [hpc EXCEPT ![t] = "idle"]
    /\ UNCHANGED <<nextChild, termCount, overlap>>
    /\ UNCHANGED sideVars
    /\ UNCHANGED lifeVars

\* A caller calls terminate() (lib.rs:218 is the one call site).
CallTerminate(t) ==
    /\ hpc[t] = "idle"
    /\ termCount < MaxTerminates
    /\ termCount' = termCount + 1
    /\ hpc' = [hpc EXCEPT ![t] = "term_lock"]
    /\ overlap' = (overlap \/ InFlight(t))
    /\ UNCHANGED <<child, procState, kills, lockOwner, hloc, nextChild>>
    /\ UNCHANGED sideVars
    /\ UNCHANGED lifeVars

\* terminate: self.child.lock() (lib.rs:28)
TermLock(t) ==
    /\ hpc[t] = "term_lock"
    /\ MutexFree
    /\ lockOwner' = t
    /\ hpc' = [hpc EXCEPT ![t] = "term_read"]
    /\ UNCHANGED <<child, procState, kills, hloc, nextChild, termCount, overlap>>
    /\ UNCHANGED sideVars
    /\ UNCHANGED lifeVars

\* terminate: .take(), its read of the slot (lib.rs:28)
TermRead(t) ==
    /\ hpc[t] = "term_read"
    /\ hloc' = [hloc EXCEPT ![t] = Take(child).taken]
    /\ hpc' = [hpc EXCEPT ![t] = "term_clear"]
    /\ UNCHANGED <<child, procState, kills, lockOwner, nextChild, termCount, overlap>>
    /\ UNCHANGED sideVars
    /\ UNCHANGED lifeVars

\* terminate: .take(), its write of None to the slot; then the `if let Some`
\* branches on what was read (lib.rs:28)
TermClear(t) ==
    /\ hpc[t] = "term_clear"
    /\ child' = Take(child).left
    /\ hpc' = [hpc EXCEPT ![t] = IF hloc[t] # 0 THEN "term_kill" ELSE "term_unlock"]
    /\ UNCHANGED <<procState, kills, lockOwner, hloc, nextChild, termCount, overlap>>
    /\ UNCHANGED sideVars
    /\ UNCHANGED lifeVars

\* terminate: child.kill(), an error only logged (lib.rs:29-31)
TermKill(t, ok) ==
    /\ hpc[t] = "term_kill"
    /\ kills' = CountKill(kills, hloc[t])
    /\ procState' = KillEffect(procState, hloc[t], ok)
    /\ hpc' = [hpc EXCEPT ![t] = "term_unlock"]
    /\ UNCHANGED <<child, lockOwner, hloc, nextChild, termCount, overlap>>
    /\ UNCHANGED sideVars
    /\ UNCHANGED lifeVars

\* terminate: the guard, a temporary of the `if let` scrutinee, is dropped
\* at the end of the statement, after the kill (lib.rs:32)
TermUnlock(t) ==
    /\ hpc[t] = "term_unlock"
    /\ lockOwner' = IF lockOwner = t THEN 0 ELSE lockOwner
    /\ hloc' = [hloc EXCEPT ![t] = 0]
    /\ hpc' = [hpc EXCEPT ![t] = "idle"]
    /\ UNCHANGED <<child, procState, kills, nextChild, termCount, overlap>>
    /\ UNCHANGED sideVars
    /\ UNCHANGED lifeVars

\* BackendProcess::default() (lib.rs:17, lib.rs:170): no child.
InitHandle ==
    /\ child = 0
    /\ procState = [c \in ChildIds |-> "unspawned"]
    /\ kills = [c \in ChildIds |-> 0]

InitHarness ==
    /\ lockOwner = 0
    /\ hpc = [t \in Threads |-> "idle"]
    /\ hloc = [t \in Threads |-> 0]
    /\ nextChild = 1
    /\ termCount = 0
    /\ overlap = FALSE

NextHandle ==
    \E t \in Threads :
        \/ CallReplace(t)
        \/ ReplaceLock(t)
        \/ ReplaceStore(t)
        \/ CallTerminate(t)
        \/ TermLock(t)
        \/ TermRead(t)
        \/ TermClear(t)
        \/ \E ok \in BOOLEAN : TermKill(t, ok)
        \/ TermUnlock(t)

\* ------------------------------------------ window preferences (lib.rs:36)

AbsentFile ==
    [kind |-> "absent"]

\* A file that serde_json cannot parse as WindowPreferences.
CorruptFile ==
    [kind |-> "corrupt"]

\* serde_json::to_string_pretty(self) (lib.rs:84): the three fields.
PrefsFile(w, h, m) ==
    [kind |-> "prefs", width |-> w, height |-> h, maximized |-> m]

\* What the environment lets a load do: succeed, fail to resolve the config
\* directory, or fail to read the file.
LoadOutcomes ==
    {"ok", "no_config_dir", "read_failed"}

\* A load that returns the file's preferences although the directory did not
\* resolve or the read failed.
LoadIgnoringFailure(f, lo) ==
    IF f.kind = "prefs"
    THEN SomePrefs(f.width, f.height, f.maximized)
    ELSE NoPrefs

\* WindowPreferences::load (lib.rs:44-72): None unless the directory
\* resolves, the file exists, is read and parses.
Load(f, lo) ==
    IF lo = "ok" /\ f.kind = "prefs"
    THEN SomePrefs(f.width, f.height, f.maximized)
    ELSE NoPrefs

\* What the environment lets a save do: write the file; fail before
\* touching it (config directory unresolved, create_dir_all failed, file not
\* opened); or fail in fs::write after the file was truncated.
SaveOutcomes ==
    {"written", "failed", "write_truncated"}

\* WindowPreferences::save (lib.rs:74-97): every failure is logged only.
Save(f, prefs, o) ==
    CASE o = "written" -> PrefsFile(prefs.width, prefs.height, prefs.maximized)
      [] o = "write_truncated" -> CorruptFile
      [] OTHER -> f

\* A window query (outer_size, is_maximized) returning Ok(v) or Err.
QueryResults(v) ==
    {[ok |-> TRUE, v |-> v], [ok |-> FALSE]}

\* The Resized guard (lib.rs:222) with the height test missing.
MeetsMinimumWidthOnly(size) ==
    size.w >= 480

\* The Resized guard (lib.rs:222) and its two thresholds.
ResizeMinWidth == 480
ResizeMinHeight == 600
MeetsMinimum(size) ==
    size.w >= ResizeMinWidth /\ size.h >= ResizeMinHeight

\* on_window_event, WindowEvent::Resized(size) for "main" (lib.rs:220-232):
\* the file afterwards and what the save did ("skipped": save not called).
OnResized(f, size, q, o) ==
    IF MeetsMinimum(size) /\ q.ok
    THEN [file |-> Save(f, SomePrefs(size.w, size.h, q.v), o), save |-> o]
    ELSE [file |-> f, save |-> "skipped"]

\* on_window_event, WindowEvent::CloseRequested for "main", the part that
\* saves (lib.rs:206-217): no threshold is tested here.
OnCloseSave(f, sizeq, q, o) ==
    IF sizeq.ok /\ q.ok
    THEN [file |-> Save(f, SomePrefs(sizeq.v.w, sizeq.v.h, q.v), o), save |-> o]
    ELSE [file |-> f, save |-> "skipped"]

\* window.outer_size(): the inner size plus the platform's decoration.
OuterSize(size, scr) ==
    [w |-> size.w + scr.decoW, h |-> size.h + scr.decoH]

\* --------------------------------------------- windows and monitor (env)

\* The monitors a launch may run on: width, height, scale factor, and the
\* decoration the platform adds around the main window; or none reported.
FullHD ==
    [present |-> TRUE, w |-> 1920, h |-> 1080, scale |-> 1, decoW |-> 0, decoH |-> 28]

HiDpi ==
    [present |-> TRUE, w |-> 2880, h |-> 1800, scale |-> 2, decoW |-> 0, decoH |-> 0]

SmallPanel ==
    [present |-> TRUE, w |-> 800, h |-> 480, scale |-> 1, decoW |-> 2, decoH |-> 30]

NoMonitor ==
    [present |-> FALSE, w |-> 0, h |-> 0, scale |-> 1, decoW |-> 0, decoH |-> 28]

Laptop ==
    [present |-> TRUE, w |-> 1366, h |-> 768, scale |-> 1, decoW |-> 0, decoH |-> 28]

\* The environments of a launch: the monitor, the preferences file an
\* earlier launch left, and which of the two windows the application has.
LaunchEnvs ==
    { [screen |-> FullHD, file |-> AbsentFile, main |-> "initial", splash |-> "open"],
      [screen |-> FullHD, file |-> PrefsFile(1000, 700, FALSE), main |-> "initial",
       splash |-> "open"],
      [screen |-> HiDpi, file |-> PrefsFile(2000, 50, FALSE), main |-> "initial",
       splash |-> "none"],
      [screen |-> SmallPanel, file |-> PrefsFile(1000, 700, FALSE), main |-> "initial",
       splash |-> "open"],
      [screen |-> NoMonitor, file |-> CorruptFile, main |-> "initial", splash |-> "open"],
      [screen |-> FullHD, file |-> AbsentFile, main |-> "none", splash |-> "open"],
      [screen |-> Laptop, file |-> AbsentFile, main |-> "initial", splash |-> "open"] }

\* The size the main window is created with (the Tauri default).
InitialWinSize ==
    [w |-> 800, h |-> 600]

\* Sizes a user may resize the main window to: either side of both
\* thresholds of the Resized guard.
ResizeSizes ==
    [w : {479, 480}, h : {599, 600}]

\* set_size(LogicalSize) (lib.rs:355-358): the window system rounds logical
\* times scale factor to whole physical pixels.
LogicalToPhysical(size, scale) ==
    [w |-> (size.w * scale + 50) \div 100, h |-> (size.h * scale + 50) \div 100]

\* PhysicalSize { width: width as u32, height: height as u32 } (lib.rs:450):
\* the cast truncates.
TruncToPhysical(size) ==
    [w |-> size.w \div 100, h |-> size.h \div 100]

\* The post-readiness size with an upper clamp to the monitor.
PostReadyGeometryClamped(scr, c) ==
    SizeOf(MinOf(MaxOf(ConfiguredWidth(scr, c), Px(480)), Px(scr.w)),
           MinOf(scr.h * 85 + Px(150), Px(scr.h)))

\* wait_for_backend_ready's size (lib.rs:444-448), with its height constants.
PostReadyMinWidth == 480
PostReadyHeightPercent == 85
PostReadyHeightExtra == 150
PostReadyGeometry(scr, c) ==
    SizeOf(MaxOf(ConfiguredWidth(scr, c), Px(PostReadyMinWidth)),
           scr.h * PostReadyHeightPercent + Px(PostReadyHeightExtra))

\* The main window exists and has not been closed.
MainAlive ==
    mainWin \in {"initial", "hidden", "visible"}

\* ----------------------------------------------------- setup (lib.rs:171)

NoConfig ==
    [built |-> FALSE]

\* The one child the application spawns.
Backend == 1

\* app.handle().plugin(...)? twice (lib.rs:173-180): an error ends setup.
SetupPlugins(ok) ==
    /\ phase = "boot"
    /\ phase' = IF ok THEN "plugins" ELSE "setup_failed"
    /\ UNCHANGED <<cfg, screen, file, lastEvent, terminated>>
    /\ UNCHANGED <<winVars, taskVars, handleVars, harnessVars, sideVars>>

\* resolve_repo_root and load_touri_env / load_production_env
\* (lib.rs:182-192); load_production_env panics when the home directory
\* cannot be resolved (lib.rs:260-272).
SetupEnv(ok) ==
    /\ phase = "plugins"
    /\ phase' = IF ok THEN "env" ELSE "panicked"
    /\ UNCHANGED <<cfg, screen, file, lastEvent, terminated>>
    /\ UNCHANGED <<winVars, taskVars, handleVars, harnessVars, sideVars>>

\* DesktopConfig::from_env (lib.rs:194)
SetupConfig(c) ==
    /\ phase = "env"
    /\ cfg' = c
    /\ phase' = "configured"
    /\ UNCHANGED <<screen, file, lastEvent, terminated>>
    /\ UNCHANGED <<winVars, taskVars, handleVars, harnessVars, sideVars>>

\* initialize_windows (lib.rs:195, lib.rs:308-362): hide the main window,
\* load the preferences, leave the maximized state, and with a monitor set
\* the pre-show size as a logical size and center. A Resized event follows
\* a size change. (The window is created non-fullscreen, so the fullscreen
\* branch at lib.rs:322-327 does nothing.)
SetupWindows(lo) ==
    /\ phase = "configured"
    /\ LET saved == Load(file, lo)
           geom == PreShowGeometry(saved, screen, cfg)
           size == IF geom.panic THEN winSize ELSE LogicalToPhysical(geom, screen.scale)
       IN  IF mainWin = "none"
           THEN /\ phase' = "windows"
                /\ UNCHANGED winVars
           ELSE IF screen.present /\ geom.panic
           THEN /\ phase' = "panicked"
                /\ mainWin' = "hidden"
                /\ winMax' = FALSE
                /\ UNCHANGED <<splashWin, winSize, resizedPending>>
           ELSE /\ phase' = "windows"
                /\ mainWin' = "hidden"
                /\ winMax' = FALSE
                /\ winSize' = IF screen.present THEN size ELSE winSize
                /\ resizedPending' = (resizedPending \/ winSize' # winSize \/ winMax)
                /\ UNCHANGED splashWin
    /\ UNCHANGED <<cfg, screen, file, lastEvent, terminated>>
    /\ UNCHANGED <<taskVars, handleVars, harnessVars, sideVars>>

\* spawn_backend with a failed packaged spawn falling through to the
\* fallback launcher.
SpawnBackendFallsThrough(resolved, exists, pkgOk, fbOk) ==
    IF resolved /\ exists /\ pkgOk
    THEN [ok |-> TRUE, via |-> "packaged", attempted |-> <<"packaged">>,
          cwd |-> "inherited"]
    ELSE [ok |-> fbOk, via |-> "fallback",
          attempted |-> IF resolved /\ exists THEN <<"packaged", "fallback">>
                        ELSE <<"fallback">>,
          cwd |-> "repo_root"]

\* spawn_backend (lib.rs:364-408): the packaged binary when its path
\* resolves (packaged_backend_path, lib.rs:474-483) and the file exists, and
\* then its spawn result is returned (lib.rs:376-387); the fallback launcher
\* with current_dir(repo_root) otherwise (lib.rs:395-407). The result names
\* the commands whose spawn was attempted and the child's working directory.
SpawnBackend(resolved, exists, pkgOk, fbOk) ==
    IF resolved /\ exists
    THEN [ok |-> pkgOk, via |-> "packaged", attempted |-> <<"packaged">>,
          cwd |-> "inherited"]
    ELSE [ok |-> fbOk, via |-> "fallback", attempted |-> <<"fallback">>,
          cwd |-> "repo_root"]

\* let child = spawn_backend(..)?; (lib.rs:197)
SetupSpawn(resolved, exists, pkgOk, fbOk) ==
    /\ phase = "windows"
    /\ LET r == SpawnBackend(resolved, exists, pkgOk, fbOk)
       IN  /\ phase' = IF r.ok THEN "spawned" ELSE "setup_failed"
           /\ procState' = IF r.ok THEN [procState EXCEPT ![Backend] = "running"]
                           ELSE procState
    /\ UNCHANGED <<child, kills>>
    /\ UNCHANGED <<cfg, screen, file, lastEvent, terminated>>
    /\ UNCHANGED <<winVars, taskVars, harnessVars, sideVars>>

\* BackendProcess::replace, run by one thread: the slot is overwritten.
Replace(h, c) ==
    c

\* app.state::<BackendProcess>().replace(child) (lib.rs:198)
SetupStore ==
    /\ phase = "spawned"
    /\ child' = Replace(child, Backend)
    /\ phase' = "stored"
    /\ UNCHANGED <<procState, kills>>
    /\ UNCHANGED <<cfg, screen, file, lastEvent, terminated>>
    /\ UNCHANGED <<winVars, taskVars, harnessVars, sideVars>>

\* The task started right after the spawn, ahead of replace.
SetupStartTaskBeforeStore ==
    /\ phase = "spawned"
    /\ phase' = "running"
    /\ tpc' = "start"
    /\ UNCHANGED <<now, tMain, tSplash, readyAt, shownAt, seen200, taskShowed,
                   taskClosedSplash>>
    /\ UNCHANGED <<cfg, screen, file, lastEvent, terminated>>
    /\ UNCHANGED <<winVars, handleVars, harnessVars, sideVars>>

\* wait_for_backend_ready(..) spawns the task and setup returns Ok
\* (lib.rs:200-201, lib.rs:410-411).
SetupStartTask ==
    /\ phase = "stored"
    /\ phase' = "running"
    /\ tpc' = "start"
    /\ UNCHANGED <<now, tMain, tSplash, readyAt, shownAt, seen200, taskShowed,
                   taskClosedSplash>>
    /\ UNCHANGED <<cfg, screen, file, lastEvent, terminated>>
    /\ UNCHANGED <<winVars, handleVars, harnessVars, sideVars>>

\* ------------------------------------------- window events (lib.rs:203)

\* The handler runs for the window labelled "main" only (lib.rs:204).
\* A user resizes the visible main window to s; the Resized handler runs
\* with s (lib.rs:220-232).
UserResize(s, q, o) ==
    /\ phase = "running"
    /\ mainWin = "visible"
    /\ winSize' = s
    /\ winMax' = FALSE
    /\ LET r == OnResized(file, s, q, o)
       IN  /\ file' = r.file
           /\ lastEvent' = "Resized"
    /\ UNCHANGED <<mainWin, splashWin, resizedPending>>
    /\ UNCHANGED <<cfg, phase, screen, terminated>>
    /\ UNCHANGED <<taskVars, handleVars, harnessVars, sideVars>>

\* The Resized event queued by a programmatic size change is delivered with
\* the window's size (lib.rs:220-232).
DeliverResized(q, o) ==
    /\ phase = "running"
    /\ mainWin \in {"hidden", "visible"}
    /\ resizedPending
    /\ resizedPending' = FALSE
    /\ LET r == OnResized(file, winSize, q, o)
       IN  /\ file' = r.file
           /\ lastEvent' = "Resized"
    /\ UNCHANGED <<mainWin, splashWin, winSize, winMax>>
    /\ UNCHANGED <<cfg, phase, screen, terminated>>
    /\ UNCHANGED <<taskVars, handleVars, harnessVars, sideVars>>

\* The terminate of the close handler with the kill left out: the handle
\* is emptied and the child keeps running.
TerminateWithoutKill(h, ps, ks, ok) ==
    [child |-> 0, procState |-> ps, kills |-> ks]

\* A terminate that puts the child back when the kill failed, so that a later
\* terminate tries again.
TerminateKeepsFailed(h, ps, ks, ok) ==
    IF h # 0
    THEN [child |-> IF ok THEN 0 ELSE h, procState |-> KillEffect(ps, h, ok),
          kills |-> CountKill(ks, h)]
    ELSE [child |-> 0, procState |-> ps, kills |-> ks]

\* BackendProcess::terminate run by one thread (lib.rs:27-33), on the
\* handle h with kill result ok.
Terminate(h, ps, ks, ok) ==
    LET t == Take(h)
    IN  IF t.taken # 0
        THEN [child |-> t.left, procState |-> KillEffect(ps, t.taken, ok),
              kills |-> CountKill(ks, t.taken)]
        ELSE [child |-> t.left, procState |-> ps, kills |-> ks]

\* A close handler that terminates only after the preferences were written.
TerminateOnlyAfterSave(save) ==
    save = "written"

\* Whether the CloseRequested arm reaches its terminate() call after a save
\* that was skipped, failed or succeeded (lib.rs:207-218): the call follows
\* the two if-lets, save returns nothing and every path falls through to it.
ReachesTerminate(save) ==
    TRUE

\* WindowEvent::CloseRequested for "main" (lib.rs:206-219): save the outer
\* size when both queries succeed, then terminate. The handler does not
\* prevent the close; the window closes unless the webview prevents it
\* (stays), and may then be asked to close again.
MainCloseRequested(sizeq, q, o, killOk, stays) ==
    /\ phase = "running"
    /\ mainWin \in {"hidden", "visible"}
    /\ LET r == OnCloseSave(file, sizeq, q, o)
           called == ReachesTerminate(r.save)
           k == IF called THEN Terminate(child, procState, kills, killOk)
                ELSE [child |-> child, procState |-> procState, kills |-> kills]
       IN  /\ file' = r.file
           /\ lastEvent' = "CloseRequested"
           /\ child' = k.child
           /\ procState' = k.procState
           /\ kills' = k.kills
           /\ terminated' = (terminated \/ called)
    /\ mainWin' = IF stays THEN mainWin ELSE "closed"
    /\ resizedPending' = (stays /\ resizedPending)
    /\ UNCHANGED <<splashWin, winSize, winMax>>
    /\ UNCHANGED <<cfg, phase, screen>>
    /\ UNCHANGED <<taskVars, harnessVars, sideVars>>

\* A window event of the splash window: the label is not "main", the
\* handler does nothing (lib.rs:204, lib.rs:235), the window closes.
SplashCloseRequested ==
    /\ phase = "running"
    /\ splashWin = "open"
    /\ splashWin' = "closed"
    /\ UNCHANGED <<mainWin, winSize, winMax, resizedPending>>
    /\ UNCHANGED <<cfg, phase, screen, file, lastEvent, terminated>>
    /\ UNCHANGED <<taskVars, handleVars, harnessVars, sideVars>>

\* The application ends when its last window has closed; run() registers
\* no handler for the exit (lib.rs:237-238).
AppExitLastWindow ==
    /\ phase = "running"
    /\ mainWin \in {"none", "closed"}
    /\ splashWin \in {"none", "closed"}
    /\ phase' = "exited"
    /\ UNCHANGED <<cfg, screen, file, lastEvent, terminated>>
    /\ UNCHANGED <<winVars, taskVars, handleVars, harnessVars, sideVars>>

\* The application is quit (menu or keyboard quit, exit request, signal)
\* without a close request to "main": run() registers only a window-event
\* handler, nothing runs at exit (lib.rs:203-238).
AppQuit ==
    /\ phase = "running"
    /\ phase' = "exited"
    /\ UNCHANGED <<cfg, screen, file, lastEvent, terminated>>
    /\ UNCHANGED <<winVars, taskVars, handleVars, harnessVars, sideVars>>

\* ------------------------------------------ readiness task (lib.rs:410)

\* sleep(Duration::from_millis(250)) (lib.rs:419), the probe's timeout
\* (lib.rs:468), in milliseconds.
PollIntervalMs == 250
ProbeTimeoutMs == 500

\* What a probe may return: a response with its status, or an error
\* (connection refused, timeout; ureq also reports a status >= 400 as one).
ProbeResults ==
    { [ok |-> TRUE, status |-> 200],
      [ok |-> TRUE, status |-> 204],
      [ok |-> FALSE, status |-> 503],
      [ok |-> FALSE, status |-> 0] }

\* backend_is_ready that never reports readiness.
NeverReady(r) ==
    FALSE

\* backend_is_ready with any response taken as ready.
AnyResponseIsReady(r) ==
    r.ok

\* backend_is_ready (lib.rs:466-472):
\* .call().map(|response| response.status() == 200).unwrap_or(false)
backend_is_ready(r) ==
    IF r.ok THEN r.status = 200 ELSE FALSE

\* The splash wait without the subtraction of the time already elapsed.
SplashWaitNone(splash_min, elapsed) ==
    0

\* The time the task sleeps after readiness (lib.rs:422-425):
\* splash_min - elapsed when splash_min > elapsed, else no sleep.
SplashWait(splash_min, elapsed) ==
    IF splash_min > elapsed THEN splash_min - elapsed ELSE 0

\* How long a probe may take, and by how much a sleep may overrun.
ProbeDurations ==
    {0, 50, ProbeTimeoutMs}

Jitters ==
    {0, 50}

\* The task's first poll: it takes its window handles and the start instant
\* (lib.rs:412-414).
TaskStart ==
    /\ phase = "running"
    /\ tpc = "start"
    /\ tMain' = MainAlive
    /\ tSplash' = (splashWin = "open")
    /\ now' = 0
    /\ tpc' = "probe"
    /\ UNCHANGED <<readyAt, shownAt, seen200, taskShowed, taskClosedSplash>>
    /\ UNCHANGED <<cfg, phase, screen, file, lastEvent, terminated>>
    /\ UNCHANGED <<winVars, handleVars, harnessVars, sideVars>>

\* Polling: one probe taking d milliseconds (lib.rs:416-418). Only a
\* running backend answers 200.
TaskProbe(r, d) ==
    /\ phase = "running"
    /\ tpc = "probe"
    /\ now + d <= MaxTime
    /\ (r.ok /\ r.status = 200) => procState[Backend] = "running"
    /\ now' = now + d
    /\ seen200' = (seen200 \/ (r.ok /\ r.status = 200))
    /\ IF backend_is_ready(r)
       THEN /\ tpc' = "min_splash"
            /\ readyAt' = now'
       ELSE /\ tpc' = "poll_sleep"
            /\ UNCHANGED readyAt
    /\ UNCHANGED <<tMain, tSplash, shownAt, taskShowed, taskClosedSplash>>
    /\ UNCHANGED <<cfg, phase, screen, file, lastEvent, terminated>>
    /\ UNCHANGED <<winVars, handleVars, harnessVars, sideVars>>

\* Polling: sleep(250ms) between probes (lib.rs:419), overrunning by j.
TaskPollSleep(j) ==
    /\ phase = "running"
    /\ tpc = "poll_sleep"
    /\ now + PollIntervalMs + j <= MaxTime
    /\ now' = now + PollIntervalMs + j
    /\ tpc' = "probe"
    /\ UNCHANGED <<tMain, tSplash, readyAt, shownAt, seen200, taskShowed,
                   taskClosedSplash>>
    /\ UNCHANGED <<cfg, phase, screen, file, lastEvent, terminated>>
    /\ UNCHANGED <<winVars, handleVars, harnessVars, sideVars>>

\* MinSplashWait (lib.rs:422-425): sleep for what is left of splash_min,
\* overrunning by j, or do not sleep at all.
TaskMinSplash(j) ==
    /\ phase = "running"
    /\ tpc = "min_splash"
    /\ LET wait == SplashWait(cfg.splash_min, now)
       IN  now' = IF wait > 0 THEN now + wait + j ELSE now
    /\ tpc' = "present"
    /\ UNCHANGED <<tMain, tSplash, readyAt, shownAt, seen200, taskShowed,
                   taskClosedSplash>>
    /\ UNCHANGED <<cfg, phase, screen, file, lastEvent, terminated>>
    /\ UNCHANGED <<winVars, handleVars, harnessVars, sideVars>>

\* Presenting, main window (lib.rs:427-458): maximize, or leave the
\* maximized state and with a monitor set the post-readiness size as a
\* physical size and center; then show and focus. Every call is made on the
\* handle taken at the start and changes nothing once the window is closed.
TaskPresentMain ==
    /\ phase = "running"
    /\ tpc = "present"
    /\ tpc' = "close_splash"
    /\ IF tMain /\ MainAlive
       THEN /\ IF cfg.maximized
               THEN /\ winMax' = TRUE
                    /\ winSize' = IF screen.present
                                  THEN [w |-> screen.w, h |-> screen.h]
                                  ELSE winSize
               ELSE /\ winMax' = FALSE
                    /\ winSize' = IF screen.present
                                  THEN TruncToPhysical(PostReadyGeometry(screen, cfg))
                                  ELSE winSize
            /\ resizedPending' = (resizedPending \/ winSize' # winSize \/ winMax' # winMax)
            /\ mainWin' = "visible"
            /\ shownAt' = now
            /\ taskShowed' = TRUE
            /\ UNCHANGED splashWin
       ELSE /\ UNCHANGED winVars
            /\ UNCHANGED <<shownAt, taskShowed>>
    /\ UNCHANGED <<now, tMain, tSplash, readyAt, seen200, taskClosedSplash>>
    /\ UNCHANGED <<cfg, phase, screen, file, lastEvent, terminated>>
    /\ UNCHANGED <<handleVars, harnessVars, sideVars>>

\* The splash step nested inside the main window's branch: the splash
\* window is closed only when the task showed the main window.
TaskCloseSplashWithMain ==
    /\ phase = "running"
    /\ tpc = "close_splash"
    /\ tpc' = "done"
    /\ splashWin' = IF tSplash /\ taskShowed /\ splashWin = "open"
                    THEN "closed" ELSE splashWin
    /\ taskClosedSplash' = (tSplash /\ taskShowed)
    /\ UNCHANGED <<mainWin, winSize, winMax, resizedPending>>
    /\ UNCHANGED <<now, tMain, tSplash, readyAt, shownAt, seen200, taskShowed>>
    /\ UNCHANGED <<cfg, phase, screen, file, lastEvent, terminated>>
    /\ UNCHANGED <<handleVars, harnessVars, sideVars>>

\* Presenting, splash window (lib.rs:459-462): close it when the task holds
\* a handle to it.
TaskCloseSplash ==
    /\ phase = "running"
    /\ tpc = "close_splash"
    /\ tpc' = "done"
    /\ splashWin' = IF tSplash /\ splashWin = "open" THEN "closed" ELSE splashWin
    /\ taskClosedSplash' = tSplash
    /\ UNCHANGED <<mainWin, winSize, winMax, resizedPending>>
    /\ UNCHANGED <<now, tMain, tSplash, readyAt, shownAt, seen200, taskShowed>>
    /\ UNCHANGED <<cfg, phase, screen, file, lastEvent, terminated>>
    /\ UNCHANGED <<handleVars, harnessVars, sideVars>>

\* ------------------------------------ speech authorization (speech.rs:19)

MaxAuthCalls == 3
AuthCalls == 1..MaxAuthCalls

\* A oneshot channel: nothing sent yet, a value sent, or the receiver
\* dropped by a call that returned.
Sent(b) ==
    [state |-> "sent", v |-> b]

EmptyChan ==
    [state |-> "empty"]

ClosedChan ==
    [state |-> "closed"]

\* What a call returned: Ok(bool), or one of the error strings.
OkResult(b) ==
    [ok |-> TRUE, v |-> b]

ErrResult(msg) ==
    [ok |-> FALSE, msg |-> msg]

NoResult ==
    [ok |-> FALSE, msg |-> "pending"]

RangeOf(q) ==
    {q[i] : i \in DOMAIN q}

\* A drain that takes only the oldest sender.
DrainOldestOnly(q) ==
    IF q = <<>> THEN [taken |-> <<>>, left |-> <<>>]
    ELSE [taken |-> <<Head(q)>>, left |-> Tail(q)]

\* guard.drain(..).collect() (speech.rs:38): every sender, the Vec left empty.
Drain(q) ==
    [taken |-> q, left |-> <<>>]

\* sender.send(authorized) (speech.rs:41): delivered unless the receiver
\* was dropped; the error is ignored.
Send(ch, b) ==
    IF ch = EmptyChan THEN Sent(b) ELSE ch

\* A delivery loop that ends at the first send that fails.
RecipientsUntilFailure(q, ch) ==
    {q[i] : i \in {j \in DOMAIN q : \A k \in 1..j : ch[q[k]] # ClosedChan}}

\* for sender in senders { let _ = sender.send(authorized); }
\* (speech.rs:40-42): a send is attempted on every drained sender, a failed
\* send does not end the loop.
Recipients(q, ch) ==
    RangeOf(q)

\* init_speech_system (speech.rs:25-28): OnceLock::set, a later call is a
\* no-op.
InitSpeechSystem ==
    /\ ~speechInit
    /\ speechInit' = TRUE
    /\ UNCHANGED <<authSenders, apc, chan, aret, outstanding, cbCount, releasedBy, sawTimedOut>>
    /\ UNCHANGED <<handleVars, harnessVars, geomVars, envVars, mediaVars, lifeVars>>

\* Every call issuing the native request.
ShouldRequestAlways(q) ==
    TRUE

\* let was_empty = guard.is_empty(); (speech.rs:98), read under the lock
\* before the push; it becomes should_request.
ShouldRequest(q) ==
    q = <<>>

\* request_speech_authorization up to the end of the locked block
\* (speech.rs:92-106): create the channel; without AUTH_SENDERS return the
\* error; under the lock read is_empty and push the sender.
AuthEnqueue(c) ==
    /\ apc[c] = "idle"
    /\ IF speechInit
       THEN /\ authSenders' = Append(authSenders, c)
            /\ chan' = [chan EXCEPT ![c] = EmptyChan]
            /\ apc' = [apc EXCEPT ![c] = IF ShouldRequest(authSenders) THEN "native" ELSE "wait"]
            /\ UNCHANGED aret
       ELSE /\ apc' = [apc EXCEPT ![c] = "returned"]
            /\ aret' = [aret EXCEPT ![c] = ErrResult("Speech system not initialized")]
            /\ UNCHANGED <<authSenders, chan>>
    /\ sawTimedOut' = [sawTimedOut EXCEPT ![c] =
                          speechInit /\ \E d \in RangeOf(authSenders) : chan[d] = ClosedChan]
    /\ UNCHANGED <<speechInit, outstanding, cbCount, releasedBy>>
    /\ UNCHANGED <<handleVars, harnessVars, geomVars, envVars, mediaVars, lifeVars>>

\* if should_request { speech_request_authorization(authorization_callback) }
\* (speech.rs:110-114), outside the lock.
AuthNativeRequest(c) ==
    /\ apc[c] = "native"
    /\ outstanding' = outstanding + 1
    /\ apc' = [apc EXCEPT ![c] = "wait"]
    /\ UNCHANGED <<speechInit, authSenders, chan, aret, cbCount, releasedBy, sawTimedOut>>
    /\ UNCHANGED <<handleVars, harnessVars, geomVars, envVars, mediaVars, lifeVars>>

\* timeout(30s, rx).await yields the value (speech.rs:117-121): a value
\* already sent is returned even when the deadline has passed, the receiver
\* is polled first.
AuthReceive(c) ==
    /\ apc[c] = "wait"
    /\ chan[c].state = "sent"
    /\ aret' = [aret EXCEPT ![c] = OkResult(chan[c].v)]
    /\ apc' = [apc EXCEPT ![c] = "returned"]
    /\ UNCHANGED <<speechInit, authSenders, chan, outstanding, cbCount, releasedBy, sawTimedOut>>
    /\ UNCHANGED <<handleVars, harnessVars, geomVars, envVars, mediaVars, lifeVars>>

\* timeout(30s, rx).await elapses (speech.rs:125-127): the receiver is
\* dropped, the sender stays in AUTH_SENDERS.
AuthTimeout(c) ==
    /\ apc[c] = "wait"
    /\ chan[c] = EmptyChan
    /\ aret' = [aret EXCEPT ![c] = ErrResult("Authorization request timed out")]
    /\ chan' = [chan EXCEPT ![c] = ClosedChan]
    /\ apc' = [apc EXCEPT ![c] = "returned"]
    /\ UNCHANGED <<speechInit, authSenders, outstanding, cbCount, releasedBy, sawTimedOut>>
    /\ UNCHANGED <<handleVars, harnessVars, geomVars, envVars, mediaVars, lifeVars>>

\* authorization_callback(authorized) (speech.rs:33-46), called by the
\* native layer once for an outstanding request: under the lock drain the
\* senders and send authorized on each.
AuthorizationCallback(b) ==
    /\ outstanding > 0
    /\ outstanding' = outstanding - 1
    /\ cbCount' = cbCount + 1
    /\ LET d == Drain(authSenders)
           taken == Recipients(d.taken, chan)
       IN  /\ authSenders' = d.left
           /\ chan' = [c \in AuthCalls |->
                         IF c \in taken THEN Send(chan[c], b) ELSE chan[c]]
           /\ releasedBy' = [c \in AuthCalls |->
                               IF c \in taken /\ chan[c] = EmptyChan
                               THEN cbCount' ELSE releasedBy[c]]
    /\ UNCHANGED <<speechInit, apc, aret, sawTimedOut>>
    /\ UNCHANGED <<handleVars, harnessVars, geomVars, envVars, mediaVars, lifeVars>>

InitSpeech ==
    /\ speechInit = FALSE
    /\ authSenders = <<>>
    /\ apc = [c \in AuthCalls |-> "idle"]
    /\ chan = [c \in AuthCalls |-> EmptyChan]
    /\ aret = [c \in AuthCalls |-> NoResult]
    /\ outstanding = 0
    /\ cbCount = 0
    /\ releasedBy = [c \in AuthCalls |-> 0]
    /\ sawTimedOut = [c \in AuthCalls |-> FALSE]

\* The speech commands are not part of the other specifications.
IdleSpeech ==
    InitSpeech

NextSpeech ==
    \/ InitSpeechSystem
    \/ \E c \in AuthCalls :
           \/ AuthEnqueue(c)
           \/ AuthNativeRequest(c)
           \/ AuthReceive(c)
           \/ AuthTimeout(c)
    \/ \E b \in BOOLEAN : AuthorizationCallback(b)

\* ------------------------------------------- video recorder (media.rs:12)

\* ffmpeg processes the commands may spawn, and command invocations, in one
\* run; two webview invocations may be in flight at a time.
MaxRecorders == 3
MaxMediaCalls == 4
MediaCallers == 1..2
RecorderIds == 1..MaxRecorders

AlreadyRecording ==
    [ok |-> FALSE, msg |-> "Already recording video"]

NotRecording ==
    [ok |-> FALSE, msg |-> "Not currently recording"]

StartFailed ==
    [ok |-> FALSE, msg |-> "start failed"]

Recorded(r) ==
    [ok |-> TRUE, rec |-> r]

NoReturn ==
    [ok |-> FALSE, msg |-> "none"]

\* start_video_recording, the check (media.rs:111-116): under the lock,
\* return the error when a recorder is stored; the lock is released at the
\* end of the block.
StartCheck(t) ==
    /\ mpc[t] = "idle"
    /\ mediaCalls < MaxMediaCalls
    /\ mediaCalls' = mediaCalls + 1
    /\ IF recorder # 0
       THEN /\ mret' = [mret EXCEPT ![t] = AlreadyRecording]
            /\ UNCHANGED mpc
       ELSE /\ mpc' = [mpc EXCEPT ![t] = "spawn"]
            /\ mret' = [mret EXCEPT ![t] = NoReturn]
    /\ UNCHANGED <<recorder, recState, nextRec, mloc, overwrote>>
    /\ UNCHANGED <<handleVars, harnessVars, geomVars, envVars, speechVars, lifeVars>>

\* start_video_recording, get_media_dir and Command::spawn
\* (media.rs:118-146): an error of either is returned; else ffmpeg runs and
\* the Child is held in a local.
StartSpawn(t, ok) ==
    /\ mpc[t] = "spawn"
    /\ IF ok /\ nextRec <= MaxRecorders
       THEN /\ recState' = [recState EXCEPT ![nextRec] = "running"]
            /\ mloc' = [mloc EXCEPT ![t] = nextRec]
            /\ nextRec' = nextRec + 1
            /\ mpc' = [mpc EXCEPT ![t] = "store"]
            /\ UNCHANGED mret
       ELSE /\ mret' = [mret EXCEPT ![t] = StartFailed]
            /\ mpc' = [mpc EXCEPT ![t] = "idle"]
            /\ UNCHANGED <<recState, mloc, nextRec>>
    /\ UNCHANGED <<recorder, mediaCalls, overwrote>>
    /\ UNCHANGED <<handleVars, harnessVars, geomVars, envVars, speechVars, lifeVars>>

\* *guard = Some((child, file_path.clone())) (media.rs:152): the slot is
\* assigned; a value it held is dropped, and dropping a Child does not kill
\* its process.
Store(old, new) ==
    new

\* start_video_recording, the store under a second lock acquisition
\* (media.rs:150-155).
StartStore(t) ==
    /\ mpc[t] = "store"
    /\ recorder' = Store(recorder, mloc[t])
    /\ overwrote' = (overwrote \/ (recorder # 0 /\ recorder' # recorder))
    /\ mret' = [mret EXCEPT ![t] = Recorded(mloc[t])]
    /\ mloc' = [mloc EXCEPT ![t] = 0]
    /\ mpc' = [mpc EXCEPT ![t] = "idle"]
    /\ UNCHANGED <<recState, nextRec, mediaCalls>>
    /\ UNCHANGED <<handleVars, harnessVars, geomVars, envVars, speechVars, lifeVars>>

\* stop_video_recording, guard.take().ok_or("Not currently recording")?
\* (media.rs:164-167): under the lock.
StopTake(t) ==
    /\ mpc[t] = "idle"
    /\ mediaCalls < MaxMediaCalls
    /\ mediaCalls' = mediaCalls + 1
    /\ IF recorder = 0
       THEN /\ mret' = [mret EXCEPT ![t] = NotRecording]
            /\ UNCHANGED <<recorder, mpc, mloc>>
       ELSE /\ mloc' = [mloc EXCEPT ![t] = recorder]
            /\ recorder' = 0
            /\ mpc' = [mpc EXCEPT ![t] = "finish"]
            /\ mret' = [mret EXCEPT ![t] = NoReturn]
    /\ UNCHANGED <<recState, nextRec, overwrote>>
    /\ UNCHANGED <<handleVars, harnessVars, geomVars, envVars, speechVars, lifeVars>>

\* stop_video_recording, SIGINT (kill on Windows) and child.wait()
\* (media.rs:169-191): the process has exited when wait returns.
StopFinish(t) ==
    /\ mpc[t] = "finish"
    /\ recState' = [recState EXCEPT ![mloc[t]] = "exited"]
    /\ mret' = [mret EXCEPT ![t] = Recorded(mloc[t])]
    /\ mloc' = [mloc EXCEPT ![t] = 0]
    /\ mpc' = [mpc EXCEPT ![t] = "idle"]
    /\ UNCHANGED <<recorder, nextRec, mediaCalls, overwrote>>
    /\ UNCHANGED <<handleVars, harnessVars, geomVars, envVars, speechVars, lifeVars>>

\* static VIDEO_RECORDER: Mutex<Option<(Child, PathBuf)>> = Mutex::new(None)
\* (media.rs:12)
InitMedia ==
    /\ recorder = 0
    /\ recState = [r \in RecorderIds |-> "unspawned"]
    /\ nextRec = 1
    /\ mpc = [t \in MediaCallers |-> "idle"]
    /\ mloc = [t \in MediaCallers |-> 0]
    /\ mret = [t \in MediaCallers |-> NoReturn]
    /\ mediaCalls = 0
    /\ overwrote = FALSE

\* The media commands are not part of the other specifications.
IdleMedia ==
    InitMedia

NextMedia ==
    \E t \in MediaCallers :
        \/ StartCheck(t)
        \/ \E ok \in BOOLEAN : StartSpawn(t, ok)
        \/ StartStore(t)
        \/ StopTake(t)
        \/ StopFinish(t)

\* ------------------------------------------------------- specifications

\* The geometry inputs are not used by BackendProcess.
IdleGeom ==
    /\ gSaved = NoPrefs
    /\ gScreen = [w |-> 1920, h |-> 1080]
    /\ gCfg = ProductionConfig
    /\ gOut = [done |-> FALSE]

\* Before setup: BackendProcess::default() is managed (lib.rs:170); the
\* windows of the application exist as configured; the environment is any
\* of the monitors and preference files.
InitLife ==
    /\ phase = "boot"
    /\ cfg = NoConfig
    /\ \E e \in LaunchEnvs :
           /\ screen = e.screen
           /\ file = e.file
           /\ mainWin = e.main
           /\ splashWin = e.splash
    /\ winSize = InitialWinSize
    /\ winMax = FALSE
    /\ resizedPending = FALSE
    /\ lastEvent = "none"
    /\ terminated = FALSE
    /\ tpc = "not_started"
    /\ now = 0
    /\ tMain = FALSE
    /\ tSplash = FALSE
    /\ readyAt = -1
    /\ shownAt = -1
    /\ seen200 = FALSE
    /\ taskShowed = FALSE
    /\ taskClosedSplash = FALSE

\* The launch is not part of SpecHandle and SpecGeom.
IdleLife ==
    /\ phase = "boot"
    /\ cfg = NoConfig
    /\ screen = NoMonitor
    /\ file = AbsentFile
    /\ mainWin = "none"
    /\ splashWin = "none"
    /\ winSize = InitialWinSize
    /\ winMax = FALSE
    /\ resizedPending = FALSE
    /\ lastEvent = "none"
    /\ terminated = FALSE
    /\ tpc = "not_started"
    /\ now = 0
    /\ tMain = FALSE
    /\ tSplash = FALSE
    /\ readyAt = -1
    /\ shownAt = -1
    /\ seen200 = FALSE
    /\ taskShowed = FALSE
    /\ taskClosedSplash = FALSE

\* The callers of SpecHandle are not part of the launch.
IdleHarness ==
    /\ lockOwner = 0
    /\ hpc = [t \in Threads |-> "idle"]
    /\ hloc = [t \in Threads |-> 0]
    /\ nextChild = 1
    /\ termCount = 0
    /\ overlap = FALSE

Init ==
    InitHandle /\ IdleHarness /\ IdleGeom /\ IdleEnv /\ IdleSpeech /\ IdleMedia /\ InitLife

SetupStep ==
    \/ \E ok \in BOOLEAN : SetupPlugins(ok)
    \/ \E ok \in BOOLEAN : SetupEnv(ok)
    \/ \E c \in Configs : SetupConfig(c)
    \/ \E lo \in LoadOutcomes : SetupWindows(lo)
    \/ \E resolved, exists, pkgOk, fbOk \in BOOLEAN :
           SetupSpawn(resolved, exists, pkgOk, fbOk)
    \/ SetupStore
    \/ SetupStartTask

\* The outcomes of a save that is called only when every query before it
\* succeeded, and of a kill that is issued only for a held child.
SaveOutcomesAfter(queriesOk) ==
    IF queriesOk THEN SaveOutcomes ELSE {"failed"}

KillResults(h) ==
    IF h # 0 THEN BOOLEAN ELSE {TRUE}

WindowEvent ==
    \/ \E s \in ResizeSizes, q \in QueryResults(FALSE) :
           \E o \in SaveOutcomesAfter(q.ok) : UserResize(s, q, o)
    \/ \E q \in QueryResults(winMax) :
           \E o \in SaveOutcomesAfter(q.ok) : DeliverResized(q, o)
    \/ \E sizeq \in QueryResults(OuterSize(winSize, screen)),
          q \in QueryResults(winMax), stays \in BOOLEAN :
           \E o \in SaveOutcomesAfter(sizeq.ok /\ q.ok), killOk \in KillResults(child) :
               MainCloseRequested(sizeq, q, o, killOk, stays)
    \/ SplashCloseRequested

TaskStep(durations, jitters) ==
    \/ TaskStart
    \/ \E r \in ProbeResults, d \in durations : TaskProbe(r, d)
    \/ \E j \in jitters : TaskPollSleep(j)
    \/ \E j \in jitters : TaskMinSplash(j)
    \/ TaskPresentMain
    \/ TaskCloseSplash

\* One launch with every window event; probes take no time and sleeps do
\* not overrun (SpecReady has the timing).
Next ==
    \/ SetupStep
    \/ WindowEvent
    \/ TaskStep({0}, {0})
    \/ AppExitLastWindow
    \/ AppQuit

Spec ==
    Init /\ [][Next]_vars

\* One launch with the timing of the readiness task: probes take up to
\* their timeout, sleeps overrun; the windows receive no event.
InitReady ==
    InitHandle /\ IdleHarness /\ IdleGeom /\ IdleEnv /\ IdleSpeech /\ IdleMedia /\ InitLife

NextReady ==
    \/ SetupStep
    \/ TaskStep(ProbeDurations, Jitters)

SpecReady ==
    InitReady /\ [][NextReady]_vars

\* One launch that keeps running: setup, the readiness task and the close
\* requests of both windows; the async runtime polls a spawned task that
\* can make progress (weak fairness of the task's steps).
InitLive ==
    InitHandle /\ IdleHarness /\ IdleGeom /\ IdleEnv /\ IdleSpeech /\ IdleMedia /\ InitLife

CloseEvent ==
    \/ \E sizeq \in QueryResults(OuterSize(winSize, screen)),
          q \in QueryResults(winMax), stays \in BOOLEAN :
           \E o \in SaveOutcomesAfter(sizeq.ok /\ q.ok), killOk \in KillResults(child) :
               MainCloseRequested(sizeq, q, o, killOk, stays)
    \/ SplashCloseRequested

NextLive ==
    \/ SetupStep
    \/ TaskStep({0}, {0})
    \/ CloseEvent

SpecLive ==
    InitLive /\ [][NextLive]_vars /\ WF_vars(TaskStep({0}, {0}))

\* from_env on every drawn environment.
InitE ==
    InitHandle /\ IdleHarness /\ IdleGeom /\ InitEnv /\ IdleSpeech /\ IdleMedia /\ IdleLife

NextEnv ==
    EnvCompute

SpecEnv ==
    InitE /\ [][NextEnv]_vars

\* The speech commands called by the webview, in any interleaving.
InitS ==
    InitHandle /\ IdleHarness /\ IdleGeom /\ IdleEnv /\ InitSpeech /\ IdleMedia /\ IdleLife

SpecSpeech ==
    InitS /\ [][NextSpeech]_vars

\* The speech commands with the 30 s timer of each call running: a call
\* that can take its next step (issue the native request, take the value,
\* let the timeout elapse) does take it.
InitSF ==
    InitHandle /\ IdleHarness /\ IdleGeom /\ IdleEnv /\ InitSpeech /\ IdleMedia /\ IdleLife

SpecSpeechFair ==
    /\ InitSF
    /\ [][NextSpeech]_vars
    /\ \A c \in AuthCalls :
           WF_vars(AuthNativeRequest(c) \/ AuthReceive(c) \/ AuthTimeout(c))

\* The video commands called by the webview, in any interleaving.
InitM ==
    InitHandle /\ IdleHarness /\ IdleGeom /\ IdleEnv /\ IdleSpeech /\ InitMedia /\ IdleLife

SpecMedia ==
    InitM /\ [][NextMedia]_vars

InitH ==
    InitHandle /\ InitHarness /\ IdleGeom /\ IdleEnv /\ IdleSpeech /\ IdleMedia /\ IdleLife

SpecHandle ==
    InitH /\ [][NextHandle]_vars

InitG ==
    InitHandle /\ InitHarness /\ InitGeom /\ IdleEnv /\ IdleSpeech /\ IdleMedia /\ IdleLife

NextGeom ==
    GeomCompute

SpecGeom ==
    InitG /\ [][NextGeom]_vars

\* from_env followed by the pre-show geometry without saved preferences.
InitP ==
    InitHandle /\ IdleHarness /\ InitPreShow /\ IdleSpeech /\ IdleMedia /\ IdleLife

NextPreShow ==
    \/ EnvCompute
    \/ PreShowCompute

SpecPreShow ==
    InitP /\ [][NextPreShow]_vars

\* ------------------------------------------------------------------ claims

Quiescent ==
    \A t \in Threads : hpc[t] = "idle"

\* A step of caller t inside a terminate that found the handle empty.
EmptyTerminateStep(t) ==
    /\ hpc[t] \in {"term_clear", "term_unlock"}
    /\ hloc[t] = 0
    /\ hpc'[t] # hpc[t]

\* C1: terminate called while no child is owned (never set, or taken by an
\* earlier terminate) issues no kill, changes no process and leaves the
\* handle empty; and over any sequence of replace and terminate calls no
\* child is killed more than once.
C1_TerminateIdempotent ==
    /\ [](\A c \in ChildIds : kills[c] <= 1)
    /\ [][\A t \in Threads :
            EmptyTerminateStep(t) =>
                (kills' = kills /\ procState' = procState /\ child' = 0)]_vars

\* C1 witness: a terminate has found the handle empty after an earlier
\* terminate took and killed the child.
C1_Witness ==
    \E t \in Threads :
        /\ hpc[t] = "term_unlock"
        /\ hloc[t] = 0
        /\ child = 0
        /\ \E c \in ChildIds : kills[c] = 1

\* C5: under every interleaving of replace and terminate calls no child is
\* killed twice, no child is killed and still stored, and one replace racing
\* one terminate ends as one of the two sequential orders: handle empty and
\* the child killed once, or handle holding the child, not killed.
C5_MutualExclusion ==
    /\ \A c \in ChildIds : kills[c] <= 1
    /\ child # 0 => kills[child] = 0
    /\ (Quiescent /\ nextChild = 2 /\ termCount = 1) =>
          \/ child = 0 /\ kills[1] = 1
          \/ child = 1 /\ kills[1] = 0

\* C5 witness: a replace and a terminate overlapped in time and ended as
\* replace;terminate.
C5_Witness ==
    /\ Quiescent
    /\ overlap
    /\ nextChild = 2
    /\ termCount = 1
    /\ child = 0
    /\ kills[1] = 1

\* The pre-show geometry was computed from saved preferences.
GeomFromSaved ==
    gOut.done /\ gSaved.some

WithinFloorsAndScreen(size, scr) ==
    /\ ~size.panic
    /\ Px(480) <= size.w /\ size.w <= Px(scr.w)
    /\ Px(600) <= size.h /\ size.h <= Px(scr.h)

HeldBySetup(c) ==
    phase = "spawned" /\ c = Backend

\* C2 as stated: no process the shell spawned is both still running and no
\* longer referenced by the handle.
C2_AsStated ==
    \A c \in ChildIds : procState[c] = "running" => (child = c \/ HeldBySetup(c))

\* C2 amended: the handle holds no child or the one spawned child; a handle
\* holding a child only keeps it or is emptied, never overwritten; a child
\* still in the handle has not been killed; and a spawned process that runs
\* unreferenced is one for which terminate issued a kill that failed.
C2_OwnsAtMostOne ==
    /\ [](/\ child \in {0, Backend}
          /\ (child # 0 => kills[child] = 0 /\ procState[child] = "running")
          /\ \A c \in ChildIds :
                 (procState[c] = "running" /\ child # c /\ ~HeldBySetup(c))
                     => kills[c] >= 1)
    /\ [][child # 0 => child' \in {child, 0}]_vars

\* C2 witness: the child was stored, the close handler took it and the
\* kill failed: it runs unreferenced after one kill was issued.
C2_Witness ==
    /\ terminated
    /\ child = 0
    /\ procState[Backend] = "running"
    /\ kills[Backend] = 1

\* C3 as stated: over one application lifetime a kill is issued for the
\* spawned backend exactly once: never more than once, and once by the time
\* the application has exited.
C3_KilledExactlyOnce ==
    /\ kills[Backend] <= 1
    /\ (phase = "exited" /\ procState[Backend] # "unspawned") => kills[Backend] = 1

\* C4 as stated: on every exit after a successful spawn terminate has been
\* invoked and the handle is empty by the time the application has exited.
C4_TerminatedOnEveryExit ==
    (phase = "exited" /\ procState[Backend] # "unspawned") =>
        (terminated /\ child = 0)

\* A Resized event is handled for the main window: a user's resize, or the
\* delivery of a queued event. Either way the event carries the size the
\* window has after the step.
ResizedHandled(q, o) ==
    \/ UserResize(winSize', q, o)
    \/ DeliverResized(q, o)

\* The results of is_maximized().
MaximizedQueries ==
    QueryResults(TRUE) \cup QueryResults(FALSE)

\* The file holds preferences with width and height exactly those of s.
HoldsSize(f, s) ==
    f.kind = "prefs" /\ f.width = s.w /\ f.height = s.h

C7_PersistedAtLeastMinimum ==
    [][(file' # file /\ file'.kind = "prefs") =>
          (file'.width >= 480 /\ file'.height >= 600)]_vars

\* C9: when the first successful health check is observed at elapsed time
\* t < splash_min the main window is not shown before splash_min has
\* elapsed; when t >= splash_min no wait is added and the window is shown at
\* readiness; the window is shown only by the task; with splash_min 1200
\* and readiness at 300 the window is not shown before 1200.
C9_SplashMinimum ==
    /\ mainWin = "visible" => taskShowed
    /\ taskShowed =>
          /\ readyAt >= 0
          /\ shownAt >= readyAt
          /\ readyAt < cfg.splash_min => shownAt >= cfg.splash_min
          /\ readyAt >= cfg.splash_min => shownAt = readyAt
          /\ (cfg.splash_min = 1200 /\ readyAt = 300) => shownAt >= 1200

\* C9 witness: splash_min is 1200, the health check succeeded at 300 and
\* the task showed the main window at 1200.
C9_Witness ==
    /\ taskShowed
    /\ mainWin = "visible"
    /\ cfg.splash_min = 1200
    /\ readyAt = 300
    /\ shownAt = 1200

\* The states of the readiness task, as positions in
\* Polling -> MinSplashWait -> Presenting -> Done.
Polling ==
    {"start", "probe", "poll_sleep"}

Presenting ==
    {"present", "close_splash"}

TaskOrder ==
    <<{"not_started"}, Polling, {"min_splash"}, Presenting, {"done"}>>

StageOf(pc) ==
    CHOOSE i \in DOMAIN TaskOrder : pc \in TaskOrder[i]

\* A probe that did not return HTTP 200: an error, a timeout or another
\* status.
NotOk200(r) ==
    ~(r.ok /\ r.status = 200)

\* C10: the task moves Polling -> MinSplashWait -> Presenting -> Done, one
\* stage at a time and never back; it leaves Polling only in a step that
\* observed HTTP 200; a probe that failed, timed out or returned another
\* status keeps it in Polling and leaves the application running; the task
\* has not shown the main window or closed the splash window before a 200
\* was observed.
C10_ReadinessStateMachine ==
    /\ [](/\ StageOf(tpc) >= StageOf("min_splash") => seen200
          /\ (taskShowed \/ taskClosedSplash) => seen200
          /\ (taskShowed \/ taskClosedSplash) => tpc \in Presenting \cup {"done"})
    /\ [][/\ StageOf(tpc') \in {StageOf(tpc), StageOf(tpc) + 1}
          /\ (tpc \in Polling /\ tpc' \notin Polling) =>
                 (tpc' = "min_splash" /\ ~seen200 /\ seen200')
          /\ \A r \in ProbeResults :
                 (NotOk200(r) /\ TaskProbe(r, 0)) =>
                     (tpc' = "poll_sleep" /\ phase' = phase /\ seen200' = seen200)]_vars

\* C10 witness: the task is Done after a probe that failed and a probe that
\* returned 200; it showed the main window and closed the splash window.
C10_Witness ==
    /\ tpc = "done"
    /\ readyAt >= PollIntervalMs
    /\ seen200
    /\ taskShowed
    /\ taskClosedSplash
    /\ mainWin = "visible"
    /\ splashWin = "closed"

C11_PollsForever ==
    /\ tpc \in Polling
    /\ procState[Backend] = "killed"
    /\ now = MaxTime

\* C12: when the packaged path resolves and the file exists only the
\* packaged binary is spawned and its spawn result, a failure included, is
\* the result; otherwise only the fallback launcher is spawned, in the
\* repository root, and its spawn result is the result; a failure ends
\* setup with no child, a success leaves the child running.
C12_SpawnPathSelection ==
    [][\A resolved, exists, pkgOk, fbOk \in BOOLEAN :
         SetupSpawn(resolved, exists, pkgOk, fbOk) =>
             LET r == SpawnBackend(resolved, exists, pkgOk, fbOk)
             IN  /\ (resolved /\ exists) =>
                       /\ r.attempted = <<"packaged">>
                       /\ r.ok = pkgOk
                 /\ ~(resolved /\ exists) =>
                       /\ r.attempted = <<"fallback">>
                       /\ r.cwd = "repo_root"
                       /\ r.ok = fbOk
                 /\ r.ok => (phase' = "spawned" /\ procState'[Backend] = "running")
                 /\ ~r.ok => (phase' = "setup_failed" /\ procState' = procState)]_vars

\* C12 witness: setup was configured, spawn_backend returned an error and
\* setup ended without a child.
C12_Witness ==
    /\ phase = "setup_failed"
    /\ cfg # NoConfig
    /\ procState[Backend] = "unspawned"
    /\ child = 0

\* C13 as stated: when TAURI_WINDOW_HEIGHT_RATIO parses as an f64 the
\* effective ratio lies in [0.5, 0.98], above 0.98 giving 0.98 and below 0.5
\* giving 0.5 (1.5 gives 0.98); when it is missing or does not parse the
\* ratio is 0.95.
C13_RatioBounded ==
    envOut.done =>
        LET e == envIn.ratio
            r == envOut.cfg.ratio
        IN  IF ParsesAsF64(e)
            THEN /\ ~r.nan
                 /\ 50 <= r.v /\ r.v <= 98
                 /\ (e.kind = "num" /\ e.v > 98) => r.v = 98
                 /\ (e.kind = "num" /\ e.v < 50) => r.v = 50
                 /\ (e.kind = "num" /\ e.v \in 50..98) => r.v = e.v
            ELSE r = Finite(95)

\* The file holds preferences (W, H) with 480 <= W <= screen width and
\* 600 <= H <= screen height.
PersistedInRange ==
    /\ file.kind = "prefs"
    /\ screen.present
    /\ 480 <= file.width /\ file.width <= screen.w
    /\ 600 <= file.height /\ file.height <= screen.h

\* C14 as stated: when the previous launch left preferences (W, H) within
\* the screen, the main window has size (W, H) at the step that first shows
\* it, and the persisted (W, H) is replaced only by a user's resize.
C14_SizeRestored ==
    [][/\ (mainWin = "hidden" /\ mainWin' = "visible" /\ lastEvent = "none"
            /\ PersistedInRange)
           => winSize' = [w |-> file.width, h |-> file.height]
       /\ (PersistedInRange /\ file' # file /\ file'.kind = "prefs")
           => \E s \in ResizeSizes, o \in SaveOutcomes :
                  \E q \in QueryResults(FALSE) : UserResize(s, q, o)]_vars

\* A call waits in the pending queue: it awaits its receiver and its
\* sender is in AUTH_SENDERS.
WaitingInQueue(c) ==
    /\ c \in RangeOf(authSenders)
    /\ apc[c] \in {"native", "wait"}
    /\ chan[c] = EmptyChan

\* C15: the authorization callback empties the queue and sends its boolean
\* to every call waiting in the queue when it fires; each such call returns
\* that boolean, so calls released by the same callback return the same
\* result; and no call is left waiting outside the queue for a later
\* callback.
C15_AuthorizationFanOut ==
    /\ [][\A b \in BOOLEAN :
            AuthorizationCallback(b) =>
                /\ authSenders' = <<>>
                /\ \A c \in AuthCalls :
                       WaitingInQueue(c) =>
                           (chan'[c] = Sent(b) /\ releasedBy'[c] = cbCount')]_vars
    /\ [](\A c \in AuthCalls :
             /\ (apc[c] = "wait" /\ chan[c] = EmptyChan) => c \in RangeOf(authSenders)
             /\ (apc[c] = "returned" /\ releasedBy[c] # 0) =>
                    (chan[c].state = "sent" /\ aret[c] = OkResult(chan[c].v))
             /\ \A d \in AuthCalls :
                    (releasedBy[c] # 0 /\ releasedBy[c] = releasedBy[d]) =>
                        chan[c] = chan[d])

\* C15 witness: two calls were released by the same callback and both
\* returned its result.
C15_Witness ==
    \E c, d \in AuthCalls :
        /\ c # d
        /\ releasedBy[c] # 0
        /\ releasedBy[c] = releasedBy[d]
        /\ aret[c] = OkResult(TRUE)
        /\ aret[d] = OkResult(TRUE)

\* C16: a replace that stores while the handle still holds a child
\* overwrites it without a kill: afterwards the handle holds the new child,
\* and the previous child is still running, was never killed and is no
\* longer in the handle.
C16_ReplaceLeaksPrevious ==
    [][\A t \in Threads :
         (ReplaceStore(t) /\ child # 0) =>
             /\ child' = hloc[t]
             /\ child' # child
             /\ kills' = kills
             /\ kills'[child] = 0
             /\ procState[child] = "running"
             /\ procState'[child] = "running"]_vars

\* C16 witness: two replace calls and no terminate: the handle holds the
\* second child and the first still runs, not killed.
C16_Witness ==
    /\ Quiescent
    /\ termCount = 0
    /\ child = 2
    /\ procState[1] = "running"
    /\ kills[1] = 0

C18_TerminateTakesFirst ==
    /\ [](kills[Backend] <= 1)
    /\ [][\A sizeq \in QueryResults(OuterSize(winSize, screen)),
            q \in QueryResults(winMax), o \in SaveOutcomes,
            killOk, stays \in BOOLEAN :
            MainCloseRequested(sizeq, q, o, killOk, stays) =>
                /\ child' = 0
                /\ phase' = phase
                /\ IF child # 0
                   THEN /\ kills'[child] = kills[child] + 1
                        /\ procState'[child] = IF killOk THEN "killed" ELSE "running"
                   ELSE kills' = kills /\ procState' = procState]_vars

\* C18 witness: a close request's kill failed, the handle is empty, the
\* application runs and the main window is still there to be closed again.
C18_Witness ==
    /\ phase = "running"
    /\ lastEvent = "CloseRequested"
    /\ mainWin \in {"hidden", "visible"}
    /\ child = 0
    /\ kills[Backend] = 1
    /\ procState[Backend] = "running"

\* C19: every close request of the main window saves the window's outer
\* size and maximized flag when both queries succeed (the file then holds
\* exactly them if the write succeeds) and leaves the file alone when a query
\* fails; and whatever the queries and the save did, terminate was invoked by
\* the same handler: the handle is empty afterwards and a held child got its
\* kill.
C19_CloseSavesThenTerminates ==
    [][\A sizeq \in QueryResults(OuterSize(winSize, screen)),
         q \in QueryResults(winMax), o \in SaveOutcomes,
         killOk, stays \in BOOLEAN :
         MainCloseRequested(sizeq, q, o, killOk, stays) =>
             /\ terminated'
             /\ child' = 0
             /\ child # 0 => kills'[child] = kills[child] + 1
             /\ (sizeq.ok /\ q.ok /\ o = "written") =>
                    file' = PrefsFile(winSize.w + screen.decoW,
                                      winSize.h + screen.decoH, winMax)
             /\ (sizeq.ok /\ q.ok /\ o = "write_truncated") => file' = CorruptFile
             /\ (~sizeq.ok \/ ~q.ok \/ o = "failed") => file' = file]_vars

\* C19 witness: on a 1920 x 1080 monitor a close request's write failed
\* half-way, and the backend was terminated all the same.
C19_Witness ==
    /\ screen = FullHD
    /\ lastEvent = "CloseRequested"
    /\ file = CorruptFile
    /\ terminated
    /\ child = 0
    /\ procState[Backend] = "killed"

\* The size C20 gives for a monitor and configuration, in whole pixels.
C20_ExpectedSize ==
    LET raw == IF cfg.width.some THEN cfg.width.v ELSE screen.w * 51 + 51000
        w == IF raw < 48000 THEN 48000 ELSE raw
        h == screen.h * 85 + 15000
    IN  [w |-> w \div 100, h |-> h \div 100]

\* C20: when the task presents the main window: configured maximized, the
\* window is maximized and gets no computed size; otherwise it is left
\* non-maximized and, with a monitor, sized to max(configured width or
\* 0.51 * screen width + 510, 480) by 0.85 * screen height + 150 as physical
\* pixels, whatever the preferences file holds and also beyond the screen
\* size; without a monitor the size is kept; in both branches the window is
\* then shown.
C20_PostReadyGeometry ==
    [][(TaskPresentMain /\ tMain /\ MainAlive) =>
          /\ mainWin' = "visible"
          /\ IF cfg.maximized
             THEN /\ winMax'
                  /\ winSize' \in {winSize, [w |-> screen.w, h |-> screen.h]}
             ELSE /\ ~winMax'
                  /\ winSize' = IF screen.present THEN C20_ExpectedSize ELSE winSize
                  /\ (screen = FullHD /\ cfg = ProductionConfig) =>
                         winSize' = [w |-> 1489, h |-> 1068]]_vars

\* C20 witness: on a 1366 x 768 monitor the window was shown at 1206 x 802,
\* taller than the monitor.
C20_Witness ==
    /\ taskShowed
    /\ mainWin = "visible"
    /\ screen = Laptop
    /\ cfg = ProductionConfig
    /\ ~winMax
    /\ winSize = [w |-> 1206, h |-> 802]

\* TAURI_WINDOW_WIDTH counts as set: it is a number greater than 320.
C21_WidthSet ==
    envIn.width.kind = "num" /\ envIn.width.v > 32000

\* C21: without saved preferences the pre-show width is min(configured
\* width or 0.51 * screen width + 510, screen width) raised to 480 if lower,
\* where a TAURI_WINDOW_WIDTH not greater than 320 counts as unset; the
\* height is min(screen height * ratio, screen height); so on a screen at
\* least 480 wide 480 <= width <= screen width, and always height <= screen
\* height.
C21_DefaultGeometry ==
    (envOut.done /\ gOut.done) =>
        LET sw == gScreen.w * 100
            sh == gScreen.h * 100
            cw == IF C21_WidthSet THEN envIn.width.v ELSE gScreen.w * 51 + 51000
            capped == IF cw < sw THEN cw ELSE sw
            r == envOut.cfg.ratio
        IN  /\ ~gOut.size.panic
            /\ envOut.cfg.width.some = C21_WidthSet
            /\ gOut.size.w = (IF capped < 48000 THEN 48000 ELSE capped)
            /\ ~r.nan =>
                   gOut.size.h = (IF gScreen.h * r.v < sh THEN gScreen.h * r.v ELSE sh)
            /\ gOut.size.h <= sh
            /\ gScreen.w >= 480 => (48000 <= gOut.size.w /\ gOut.size.w <= sw)

\* C21 witness: TAURI_WINDOW_WIDTH=320 on a 1920 x 1080 screen with the
\* default ratio counted as unset and gave 1489.2 x 1026.
C21_Witness ==
    /\ envOut.done /\ gOut.done
    /\ envIn.width = Num(32000)
    /\ envIn.ratio = Missing
    /\ gScreen = [w |-> 1920, h |-> 1080]
    /\ gOut.size = SizeOf(148920, 102600)

C23_SpawnFailed ==
    phase = "setup_failed" /\ cfg # NoConfig

\* C23: in setup the configuration is built only after the environment was
\* resolved; the backend is spawned only after initialize_windows returned,
\* with the main window hidden, and is not yet spawned while the pre-show
\* geometry is applied; the readiness task is started only when the child
\* is stored in BackendProcess; and after an error of spawn_backend no
\* handle is stored, now or later, and the task is never started.
C23_StartupOrder ==
    /\ [][cfg' # cfg => (phase = "env" /\ phase' = "configured")]_vars
    /\ [][phase = "configured" =>
              (procState[Backend] = "unspawned" /\ procState' = procState)]_vars
    /\ [][(procState[Backend] = "unspawned" /\ procState'[Backend] # "unspawned") =>
              /\ phase = "windows"
              /\ mainWin \in {"hidden", "none"}
              /\ child = 0 /\ tpc = "not_started"]_vars
    /\ [][(tpc = "not_started" /\ tpc' # "not_started") =>
              (phase = "stored" /\ child = Backend /\ procState[Backend] = "running")]_vars
    /\ [](C23_SpawnFailed =>
              /\ child = 0
              /\ tpc = "not_started"
              /\ procState[Backend] = "unspawned")
    /\ [](C23_SpawnFailed => []C23_SpawnFailed)

\* C23 witness: spawn_backend returned an error after the pre-show geometry
\* hid and sized the main window; nothing is stored and no task runs.
C23_Witness ==
    /\ C23_SpawnFailed
    /\ mainWin = "hidden"
    /\ winSize # InitialWinSize
    /\ child = 0
    /\ tpc = "not_started"

TimedOut ==
    ErrResult("Authorization request timed out")

NotInitialized ==
    ErrResult("Speech system not initialized")

\* C24: every call that was started returns: a call waits only on a channel
\* that holds a value or can still time out; a call the callback reached
\* before its timeout returns the callback's boolean, a call it did not
\* reach returns the timeout error; a call made before init_speech_system
\* returns the not-initialized error without queueing a sender or issuing a
\* native request; and a timed-out call's sender left in the queue prevents
\* no later call from a result: such a call always has a native request
\* outstanding or about to be issued, and the callback sends to it past the
\* dropped receiver.
C24_BoundedWait ==
    /\ \A c \in AuthCalls : (apc[c] # "idle") ~> (apc[c] = "returned")
    /\ [](\A c \in AuthCalls :
             /\ apc[c] = "wait" => chan[c].state \in {"empty", "sent"}
             /\ apc[c] = "returned" =>
                    \/ chan[c].state = "sent" /\ aret[c] = OkResult(chan[c].v)
                    \/ chan[c] = ClosedChan /\ aret[c] = TimedOut
                    \/ aret[c] = NotInitialized /\ c \notin RangeOf(authSenders)
             /\ WaitingInQueue(c) => (outstanding > 0 \/ \E d \in AuthCalls : apc[d] = "native"))
    /\ [][\A c \in AuthCalls :
             (apc[c] = "idle" /\ apc'[c] # "idle" /\ ~speechInit) =>
                 /\ aret'[c] = NotInitialized
                 /\ apc'[c] = "returned"
                 /\ outstanding' = outstanding
                 /\ authSenders' = authSenders]_vars
    /\ [][\A c \in AuthCalls :
             (cbCount' # cbCount /\ WaitingInQueue(c)) =>
                 (chan'[c].state = "sent" /\ c \notin RangeOf(authSenders'))]_vars

\* C24 witness: one call timed out; a later call found its sender in the
\* queue, was reached by the callback and returned Ok(true).
C24_Witness ==
    \E a, c \in AuthCalls :
        /\ aret[a] = TimedOut
        /\ sawTimedOut[c]
        /\ aret[c] = OkResult(TRUE)

\* Calls that pushed their sender into an empty queue and have not yet
\* issued the native request.
AboutToRequest ==
    {c \in AuthCalls : apc[c] = "native"}

\* C25: in every interleaving of calls and callbacks at most one native
\* request is outstanding, counting a request about to be issued; a call
\* comes to issue the native request only by pushing its sender into an
\* empty queue, and requests are issued by such calls only; and every call
\* waiting in the queue has a native request outstanding or about to be
\* issued.
C25_OneRequestInFlight ==
    /\ [](outstanding + Cardinality(AboutToRequest) <= 1)
    /\ [](\A c \in AuthCalls :
             WaitingInQueue(c) => (outstanding = 1 \/ AboutToRequest # {}))
    /\ [][\A c \in AuthCalls :
             (apc'[c] = "native" /\ apc[c] # "native") =>
                 (authSenders = <<>> /\ authSenders' = <<c>>)]_vars
    /\ [][outstanding' > outstanding =>
             \E c \in AuthCalls :
                 /\ apc[c] = "native" /\ apc'[c] = "wait"
                 /\ authSenders # <<>> /\ Head(authSenders) = c]_vars

\* C25 witness: three calls wait in the queue on the one native request the
\* first of them issued.
C25_Witness ==
    /\ outstanding = 1
    /\ AboutToRequest = {}
    /\ Len(authSenders) = 3
    /\ \A c \in AuthCalls : WaitingInQueue(c)

\* ffmpeg processes that are alive.
LiveRecorders ==
    {r \in RecorderIds : recState[r] = "running"}

\* A command in flight holds the process in a local: a start between its
\* spawn and its store, a stop between its take and the end of its wait.
HeldByCommand(r) ==
    \E t \in MediaCallers : mloc[t] = r

\* C26 as stated: in every interleaving of start_video_recording and
\* stop_video_recording at most one ffmpeg process spawned by the shell is
\* alive, every live one is the recorder in VIDEO_RECORDER (or still in the
\* hands of the command that spawned or took it), and no store overwrites a
\* stored recorder; a start that finds a recorder stored returns 'Already
\* recording video' and spawns nothing, a stop that finds none returns 'Not
\* currently recording' and changes nothing.
C26_SingleRecorder ==
    /\ [](Cardinality(LiveRecorders) <= 1)
    /\ [](\A r \in LiveRecorders : recorder = r \/ HeldByCommand(r))
    /\ [](~overwrote)
    /\ [][\A t \in MediaCallers :
             (StartCheck(t) /\ recorder # 0) =>
                 /\ mret'[t] = AlreadyRecording
                 /\ recState' = recState /\ recorder' = recorder]_vars
    /\ [][\A t \in MediaCallers :
             (StopTake(t) /\ recorder = 0) =>
                 /\ mret'[t] = NotRecording
                 /\ recState' = recState /\ recorder' = recorder]_vars

====
